---------------------------- MODULE Spec2Model ----------------------------
(***************************************************************************)
(* The ReAct agent of react_agent.py: ReActAgent.run, the loop that calls  *)
(* the reasoning service (LLMClient.call_llm), interprets its response     *)
(* (_parse_llm_response), dispatches the requested tools (Tool.run over    *)
(* database.py) and appends the observations to chat_history.              *)
(*                                                                         *)
(* A text is a sequence of pieces [s, n]: s is the piece's characters and  *)
(* n their number.  The texts the code inspects character by character     *)
(* (the responses of the reasoning service) are held one character per     *)
(* piece; a fixed message of the code is one piece with its real length;   *)
(* a line of a rendered table is one piece as long as the line.            *)
(***************************************************************************)
EXTENDS Integers, Sequences, FiniteSets, TLC

\* ------------------------------------------------------------------ bounds

\* The largest max_steps a run is started with.
MaxSteps == 2
\* The largest number of call requests the reasoning service makes in one run.
MaxRequests == 2
\* The number of runs made on the agent.
MaxRuns == 2

\* ------------------------------------------------------- program constants

\* react_agent.py:161, the length above which a rendering is cut.
TRUNCATE_LIMIT == 2000
\* react_agent.py:162, the rows kept when a rendering is cut.
HEAD_ROWS == 5

\* ------------------------------------------------------------------- texts

Min(a, b) == IF a < b THEN a ELSE b
Max(a, b) == IF a > b THEN a ELSE b

\* A fixed message of n characters.
Tok(s, n) == << [s |-> s, n |-> n] >>
\* A text held one character per piece.
Chars(cs) == [i \in DOMAIN cs |-> [s |-> cs[i], n |-> 1]]

\* len(text)
RECURSIVE StrLen(_)
StrLen(t) == IF t = << >> THEN 0 ELSE Head(t).n + StrLen(Tail(t))

IsSpace(p) == p.s \in {" ", "\n", "\t"}

RECURSIVE LStrip(_)
LStrip(t) == IF t # << >> /\ IsSpace(Head(t)) THEN LStrip(Tail(t)) ELSE t

RECURSIVE RStrip(_)
RStrip(t) ==
    IF t # << >> /\ IsSpace(t[Len(t)]) THEN RStrip(SubSeq(t, 1, Len(t) - 1)) ELSE t

\* str.strip()
Strip(t) == RStrip(LStrip(t))

LowerChar(c) ==
    CASE c = "A" -> "a" [] c = "B" -> "b" [] c = "C" -> "c" [] c = "D" -> "d"
      [] c = "E" -> "e" [] c = "F" -> "f" [] c = "G" -> "g" [] c = "H" -> "h"
      [] c = "I" -> "i" [] c = "J" -> "j" [] c = "K" -> "k" [] c = "L" -> "l"
      [] c = "M" -> "m" [] c = "N" -> "n" [] c = "O" -> "o" [] c = "P" -> "p"
      [] c = "Q" -> "q" [] c = "R" -> "r" [] c = "S" -> "s" [] c = "T" -> "t"
      [] c = "U" -> "u" [] c = "V" -> "v" [] c = "W" -> "w" [] c = "X" -> "x"
      [] c = "Y" -> "y" [] c = "Z" -> "z" [] OTHER -> c

\* str.lower()
Lower(t) == [i \in DOMAIN t |-> [s |-> LowerChar(t[i].s), n |-> t[i].n]]

\* str.startswith(prefix)
StartsWith(t, prefix) ==
    Len(t) >= Len(prefix) /\ SubSeq(t, 1, Len(prefix)) = prefix

\* text[k:]
SliceFrom(t, k) == SubSeq(t, k + 1, Len(t))

\* Whether text a occurs in text b as a run of consecutive pieces.
Contains(b, a) ==
    \E i \in 0 .. (Len(b) - Len(a)) : SubSeq(b, i + 1, i + Len(a)) = a

THOUGHT_MARKER == Chars(<< "t", "h", "o", "u", "g", "h", "t", ":" >>)
ACTION_MARKER == Chars(<< "a", "c", "t", "i", "o", "n", ":" >>)
FINAL_MARKER ==
    Chars(<< "f", "i", "n", "a", "l", " ", "a", "n", "s", "w", "e", "r", ":" >>)


\* --------------------------------------------- the response interpreter

IsWordChar(p) ==
    p.s \in { "a", "b", "c", "d", "e", "f", "g", "h", "i", "j", "k", "l", "m",
              "n", "o", "p", "q", "r", "s", "t", "u", "v", "w", "x", "y", "z",
              "A", "B", "C", "D", "E", "F", "G", "H", "I", "J", "K", "L", "M",
              "N", "O", "P", "Q", "R", "S", "T", "U", "V", "W", "X", "Y", "Z",
              "0", "1", "2", "3", "4", "5", "6", "7", "8", "9", "_" }

\* The first position at or after i whose piece does not satisfy the test
\* (Len(t) + 1 when there is none).
RECURSIVE SkipSpaces(_, _)
SkipSpaces(t, i) ==
    IF i <= Len(t) /\ IsSpace(t[i]) THEN SkipSpaces(t, i + 1) ELSE i

RECURSIVE SkipWord(_, _)
SkipWord(t, i) ==
    IF i <= Len(t) /\ IsWordChar(t[i]) THEN SkipWord(t, i + 1) ELSE i

\* re.match(r"Action:\s*(\w+)\((.*)\)", response_content, re.IGNORECASE):
\* the match is tried at the first character of the text as it came; "."
\* matches no line break, and ".*" runs to the last ")" of the line.
ReMatchAction(t) ==
    LET n == Len(ACTION_MARKER)
        i == SkipSpaces(t, n + 1)
        j == SkipWord(t, i)
        lineEnd == IF \E k \in (j + 1) .. Len(t) : t[k].s = "\n"
                   THEN CHOOSE k \in (j + 1) .. Len(t) :
                            /\ t[k].s = "\n"
                            /\ \A m \in (j + 1) .. (k - 1) : t[m].s # "\n"
                   ELSE Len(t) + 1
        closers == {k \in (j + 1) .. (lineEnd - 1) : t[k].s = ")"}
        head == /\ Len(t) >= n
                /\ Lower(SubSeq(t, 1, n)) = ACTION_MARKER
                /\ j > i
                /\ j <= Len(t)
                /\ t[j].s = "("
        last == CHOOSE k \in closers : \A m \in closers : m <= k
    IN  IF head /\ closers # {}
        THEN [matched |-> TRUE,
              tool_name |-> SubSeq(t, i, j - 1),
              args_str |-> SubSeq(t, j + 1, last - 1)]
        ELSE [matched |-> FALSE, tool_name |-> << >>, args_str |-> << >>]

\* The first place of character c in text t, 0 when there is none.
IndexOf(t, c) ==
    IF \E i \in DOMAIN t : t[i].s = c
    THEN CHOOSE i \in DOMAIN t : t[i].s = c /\ \A m \in 1 .. (i - 1) : t[m].s # c
    ELSE 0

\* str.split(sep), for a separator of one character.
RECURSIVE SplitOn(_, _)
SplitOn(t, sep) ==
    LET i == IndexOf(t, sep)
    IN  IF i = 0 THEN << t >>
        ELSE << SubSeq(t, 1, i - 1) >> \o SplitOn(SubSeq(t, i + 1, Len(t)), sep)

\* str.strip("'\""): the quote characters at both ends are taken off.
IsQuote(p) == p.s \in {"'", "\""}

RECURSIVE StripQuotes(_)
StripQuotes(t) ==
    IF t # << >> /\ IsQuote(Head(t)) THEN StripQuotes(Tail(t))
    ELSE IF t # << >> /\ IsQuote(t[Len(t)]) THEN StripQuotes(SubSeq(t, 1, Len(t) - 1))
    ELSE t

IsDigit(p) == p.s \in {"0", "1", "2", "3", "4", "5", "6", "7", "8", "9"}

TXT_TRUE == Chars(<< "t", "r", "u", "e" >>)
TXT_FALSE == Chars(<< "f", "a", "l", "s", "e" >>)
TXT_NULL == Chars(<< "n", "u", "l", "l" >>)

\* A parsed value: its kind and its text (the digits of a number, the
\* characters of a string between its quotes).
Value(kind, text) == [kind |-> kind, text |-> text]

\* json.loads(text) for the text of one value: an integer, a string in
\* double quotes (without escapes), true, false or null.  ok: whether the
\* text is such a value (json.loads raises JSONDecodeError otherwise).  The
\* other values of JSON (fractions, lists, objects) are not among the inputs.
JsonValue(text) ==
    LET t == Strip(text)
        digits == IF t # << >> /\ t[1].s = "-" THEN Tail(t) ELSE t
        isNumber == /\ digits # << >>
                    /\ \A i \in DOMAIN digits : IsDigit(digits[i])
                    /\ (Len(digits) > 1 => digits[1].s # "0")
        inner == SubSeq(t, 2, Len(t) - 1)
        isString == /\ Len(t) >= 2
                    /\ t[1].s = "\""
                    /\ t[Len(t)].s = "\""
                    /\ \A i \in DOMAIN inner : inner[i].s \notin {"\"", "\\", "\n", "\t"}
    IN  IF isNumber THEN [ok |-> TRUE, value |-> Value("number", t)]
        ELSE IF isString THEN [ok |-> TRUE, value |-> Value("string", inner)]
        ELSE IF t \in {TXT_TRUE, TXT_FALSE} THEN [ok |-> TRUE, value |-> Value("bool", t)]
        ELSE IF t = TXT_NULL THEN [ok |-> TRUE, value |-> Value("null", t)]
        ELSE [ok |-> FALSE, value |-> Value("none", << >>)]

\* The members of the body of a JSON object: the body is cut at the commas
\* outside strings.  i: the place looked at; start: where the member began;
\* inString: whether a string is open.
RECURSIVE JsonMembers(_, _, _, _)
JsonMembers(t, i, start, inString) ==
    IF i > Len(t) THEN << SubSeq(t, start, Len(t)) >>
    ELSE IF t[i].s = "\"" THEN JsonMembers(t, i + 1, start, ~inString)
    ELSE IF t[i].s = "," /\ ~inString
    THEN << SubSeq(t, start, i - 1) >> \o JsonMembers(t, i + 1, i + 1, FALSE)
    ELSE JsonMembers(t, i + 1, start, inString)

\* One member of a JSON object, "key": value.
JsonMember(text) ==
    LET t == Strip(text)
        q == IndexOf(Tail(t), "\"") + 1
        rest == Strip(SubSeq(t, q + 1, Len(t)))
        v == JsonValue(SubSeq(rest, 2, Len(rest)))
    IN  IF /\ t # << >>
           /\ t[1].s = "\""
           /\ q > 1
           /\ rest # << >>
           /\ rest[1].s = ":"
           /\ v.ok
        THEN [ok |-> TRUE, key |-> SubSeq(t, 2, q - 1), value |-> v.value]
        ELSE [ok |-> FALSE, key |-> << >>, value |-> Value("none", << >>)]

\* dict assignment: args[key] = value.
SetItem(args, key, value) == {kv \in args : kv[1] # key} \cup {<< key, value >>}

RECURSIVE JsonItems(_, _)
JsonItems(members, args) ==
    IF members = << >> THEN args
    ELSE LET m == JsonMember(Head(members))
         IN  JsonItems(Tail(members), SetItem(args, m.key, m.value))

\* json.loads("{" + args_str + "}"), line 71: the argument map (a set of
\* pairs of a key and a value), or a JSONDecodeError.
JsonObject(args_str) ==
    LET members == JsonMembers(args_str, 1, 1, FALSE)
    IN  IF Strip(args_str) = << >> THEN [ok |-> TRUE, items |-> {}]
        ELSE IF \A i \in DOMAIN members : JsonMember(members[i]).ok
        THEN [ok |-> TRUE, items |-> JsonItems(members, {})]
        ELSE [ok |-> FALSE, items |-> {}]

\* Lines 74-79: the pieces between the commas that hold a "=" are cut at
\* their first "="; the value is read as JSON or, failing that, kept as a
\* string without the quote characters at its ends.
RECURSIVE KeyValueArgs(_, _)
KeyValueArgs(pieces, args) ==
    IF pieces = << >> THEN args
    ELSE LET arg_pair == Head(pieces)
             i == IndexOf(arg_pair, "=")
             key == SubSeq(arg_pair, 1, i - 1)
             value == SubSeq(arg_pair, i + 1, Len(arg_pair))
             v == JsonValue(value)
         IN  IF i = 0 THEN KeyValueArgs(Tail(pieces), args)
             ELSE KeyValueArgs(Tail(pieces),
                               SetItem(args, Strip(key),
                                       IF v.ok THEN v.value
                                       ELSE Value("string", StripQuotes(Strip(value)))))

\* Lines 64-79: the arguments of a free-text action.
ParseArgs(args_str) ==
    LET j == JsonObject(args_str)
    IN  IF j.ok THEN j.items ELSE KeyValueArgs(SplitOn(args_str, ","), {})

\* ReActAgent._parse_llm_response.  The markers are looked for in the
\* stripped, lowered text; the content is cut out of the text as it came.
ParseLLMResponse(response_content) ==
    LET content_lower == Lower(Strip(response_content))
        m == ReMatchAction(response_content)
    IN  IF StartsWith(content_lower, THOUGHT_MARKER)
        THEN [type |-> "thought",
              content |-> Strip(SliceFrom(response_content, Len(THOUGHT_MARKER))),
              tool_name |-> << >>, args_str |-> << >>, tool_args |-> {}]
        ELSE IF StartsWith(content_lower, ACTION_MARKER)
        THEN IF m.matched
             THEN [type |-> "action", content |-> << >>,
                   tool_name |-> m.tool_name, args_str |-> m.args_str,
                   tool_args |-> ParseArgs(m.args_str)]
             ELSE [type |-> "error",
                   content |-> Tok("Invalid Action format: ", 23) \o response_content,
                   tool_name |-> << >>, args_str |-> << >>, tool_args |-> {}]
        ELSE IF StartsWith(content_lower, FINAL_MARKER)
        THEN [type |-> "final_answer",
              content |-> Strip(SliceFrom(response_content, Len(FINAL_MARKER))),
              tool_name |-> << >>, args_str |-> << >>, tool_args |-> {}]
        ELSE [type |-> "text", content |-> Strip(response_content),
              tool_name |-> << >>, args_str |-> << >>, tool_args |-> {}]

\* -------------------------------------------------------------- the store

\* How the store (database.py, call_records.db) stands: loaded, without the
\* table, or not to be opened.
DbStates == {"ok", "no_table", "unavailable"}

\* A table (pandas.DataFrame): the widths of its column names and its rows,
\* each row the widths of its cells.
DataFrame(cols, rows) == [cols |-> cols, rows |-> rows]
Row(id, cells) == [id |-> id, cells |-> cells]

\* DataFrame.empty
IsEmptyFrame(df) == df.rows = << >> \/ df.cols = << >>

\* DataFrame.head(n)
HeadRows(df, n) == DataFrame(df.cols, SubSeq(df.rows, 1, Min(n, Len(df.rows))))

RECURSIVE MaxCell(_, _, _)
MaxCell(rows, j, acc) ==
    IF rows = << >> THEN acc
    ELSE MaxCell(Tail(rows), j, Max(acc, Head(rows).cells[j]))

\* The width of column j in the rendering: the name with its padding of two,
\* or the widest cell.
ColWidth(df, j) == MaxCell(df.rows, j, df.cols[j] + 2)

RECURSIVE LineWidthFrom(_, _)
LineWidthFrom(df, j) ==
    IF j > Len(df.cols) THEN 1 ELSE ColWidth(df, j) + 3 + LineWidthFrom(df, j + 1)

\* The length of one line of the rendering, "| cell | cell |".
LineWidth(df) == LineWidthFrom(df, 1)

\* DataFrame.to_markdown(index=False): the names, the rule and one line per
\* row, all of one width, joined by line breaks.
ToMarkdown(df) ==
    LET w == LineWidth(df)
        line(i) == IF i = 1 THEN [s |-> "header", n |-> w]
                   ELSE IF i = 2 THEN [s |-> "rule", n |-> w]
                   ELSE [s |-> df.rows[i - 2].id, n |-> w]
        lines == 2 + Len(df.rows)
    IN  [k \in 1 .. (2 * lines - 1) |->
            IF k % 2 = 1 THEN line((k + 1) \div 2) ELSE [s |-> "\n", n |-> 1]]

\* str(DataFrame) of an empty table.
EmptyFrameStr == Tok("Empty DataFrame", 77)

\* The queries the reasoning service sends, and what the loaded store answers.
RowsOf(k, id, w) == [i \in 1 .. k |-> Row(id \o ToString(i), << w >>)]
SMALL_FRAME == DataFrame(<< 9 >>, << Row("r1", << 8 >>), Row("r2", << 5 >>) >>)
LONG_FRAME == DataFrame(<< 10 >>, RowsOf(10, "long row ", 196))
WIDE_FRAME == DataFrame(<< 10 >>, << Row("wide", << 2996 >>) >>)
ERROR_FRAME == DataFrame(<< 5 >>, << Row("no such table", << 35 >>) >>)
SCHEMA_FRAME ==
    DataFrame(<< 11, 9, 8, 11 >>,
              << Row("call_id", << 7, 7, 1, 1 >>), Row("call_type", << 9, 4, 1, 1 >>) >>)
PRAGMA_EMPTY_FRAME == DataFrame(<< 3, 4, 4, 7, 10, 2 >>, << >>)

QueryResult(query) ==
    CASE query = "SELECT small" -> SMALL_FRAME
      [] query = "SELECT long" -> LONG_FRAME
      [] query = "SELECT wide" -> WIDE_FRAME
      [] OTHER -> ERROR_FRAME

\* What a tool function gives: a value, or an exception with its message.
Returned(v) == [raised |-> FALSE, isframe |-> TRUE, value |-> v, message |-> << >>]
ReturnedText(t) ==
    [raised |-> FALSE, isframe |-> FALSE, value |-> DataFrame(<< >>, << >>), message |-> t]
Raised(msg) ==
    [raised |-> TRUE, isframe |-> FALSE, value |-> DataFrame(<< >>, << >>), message |-> msg]

\* database.execute_sql_query: the connection is opened outside the try.
ExecuteSqlQuery(db, query) ==
    IF db = "unavailable" THEN Raised(Tok("unable to open database file", 28))
    ELSE IF db = "no_table" THEN Returned(ERROR_FRAME)
    ELSE Returned(QueryResult(query))

\* database.get_table_schema
GetTableSchema(db, table_name) ==
    IF db = "unavailable" THEN Raised(Tok("unable to open database file", 28))
    ELSE IF db = "ok" /\ table_name = "call_records" THEN Returned(SCHEMA_FRAME)
    ELSE Returned(PRAGMA_EMPTY_FRAME)


\* -------------------------------------------------------------- the tools

\* tools.ALL_TOOLS
ALL_TOOLS == {"sql_query", "describe_table"}

\* The registries an agent is built with: all the tools, or the query tool alone.
Registries == {ALL_TOOLS, {"sql_query"}}

\* len(name)
NameText(name) ==
    CASE name = "sql_query" -> Tok(name, 9)
      [] name = "describe_table" -> Tok(name, 14)
      [] name = "foo_tool" -> Tok(name, 8)
      [] OTHER -> Tok(name, 1)

\* The argument payloads of the call requests, as the service sends them.
ARG_BAD == "{bad"
ARG_LIST == "[1]"
ARG_NONE == "{}"
ARG_SMALL == "{\"query\": \"SELECT small\"}"
ARG_LONG == "{\"query\": \"SELECT long\"}"
ARG_WIDE == "{\"query\": \"SELECT wide\"}"
ARG_TABLE == "{\"table_name\": \"call_records\"}"

ArgText(a) ==
    CASE a = ARG_BAD -> Tok(a, 4)
      [] a = ARG_LIST -> Tok(a, 3)
      [] a = ARG_NONE -> Tok(a, 2)
      [] a = ARG_SMALL -> Tok(a, 25)
      [] a = ARG_LONG -> Tok(a, 24)
      [] a = ARG_WIDE -> Tok(a, 24)
      [] a = ARG_TABLE -> Tok(a, 30)
      [] OTHER -> Tok(a, 1)

\* json.loads(tool_args_str): a JSONDecodeError, or the value: a dict (its
\* items as a set of pairs) or something that is no dict.
JsonLoads(a) ==
    CASE a = ARG_LIST -> [err |-> FALSE, isdict |-> FALSE, items |-> {}]
      [] a = ARG_NONE -> [err |-> FALSE, isdict |-> TRUE, items |-> {}]
      [] a = ARG_SMALL ->
            [err |-> FALSE, isdict |-> TRUE, items |-> {<< "query", "SELECT small" >>}]
      [] a = ARG_LONG ->
            [err |-> FALSE, isdict |-> TRUE, items |-> {<< "query", "SELECT long" >>}]
      [] a = ARG_WIDE ->
            [err |-> FALSE, isdict |-> TRUE, items |-> {<< "query", "SELECT wide" >>}]
      [] a = ARG_TABLE ->
            [err |-> FALSE, isdict |-> TRUE, items |-> {<< "table_name", "call_records" >>}]
      [] OTHER -> [err |-> TRUE, isdict |-> FALSE, items |-> {}]

\* The field a tool's args_schema requires (SQLQueryParams, DescribeTableParams).
RequiredField(name) == IF name = "sql_query" THEN "query" ELSE "table_name"

\* Tool.run(**kwargs): the arguments are validated against args_schema, a
\* ValidationError is raised on as a ValueError, and the function is called
\* with the validated arguments.  called: whether the function was called.
ToolRun(name, items, db) ==
    LET field == RequiredField(name)
        given == {kv \in items : kv[1] = field}
        v == (CHOOSE kv \in given : TRUE)[2]
    IN  IF given = {}
        THEN [called |-> FALSE,
              out |-> Raised(Tok("Tool '", 6) \o NameText(name)
                             \o Tok("' argument validation failed: ", 30)
                             \o Tok("Field required", 14))]
        ELSE [called |-> TRUE,
              out |-> IF name = "sql_query" THEN ExecuteSqlQuery(db, v)
                      ELSE GetTableSchema(db, v)]

\* ---------------------------------------------------- the reasoning client

\* What the exchange with the service comes to: an exception of requests, a
\* body that is not the expected JSON, or a message.
ExceptionKinds == {"ConnectionError", "Timeout", "HTTPError", "KeyError"}

\* LLMClient.call_llm, lines 69-86: the exception handlers.
ErrorContent(exc) ==
    CASE exc = "HTTPError" ->
            Tok("HTTP Error: ", 12) \o Tok("500 Server Error", 16) \o Tok(" - ", 3)
            \o Tok("response.text", 13)
      [] exc = "ConnectionError" ->
            Tok("Connection Error: ", 18) \o Tok("connection refused", 18)
      [] exc = "Timeout" -> Tok("Timeout Error: ", 15) \o Tok("read timed out", 14)
      [] OTHER -> Tok("Unknown Error: ", 15) \o Tok("'choices'", 9)

\* LLMClient.call_llm, lines 47-67: the response of the exchange.
CallLLM(outcome) ==
    IF outcome.exc # "none"
    THEN [type |-> "error", content |-> ErrorContent(outcome.exc), tool_calls |-> << >>]
    ELSE IF outcome.tool_calls # << >>
    THEN [type |-> "tool_calls", content |-> << >>, tool_calls |-> outcome.tool_calls]
    ELSE IF outcome.content # << >>
    THEN [type |-> "text", content |-> outcome.content, tool_calls |-> << >>]
    ELSE [type |-> "empty", content |-> << >>, tool_calls |-> << >>]


\* --------------------------------------------------------------- the agent

VARIABLES
    tools,          \* self.tools: the names of the registered tools
    db,             \* how the store stands
    chat_history,   \* self.chat_history: the transcript
    pc,             \* where run stands: "idle", "loop" (line 121), "dispatch"
                    \* (line 131), or the return taken (lines 182, 189, 192, 195)
    max_steps,      \* run's max_steps
    step,           \* the iterations of the loop of line 121 completed
    tool_calls,     \* the call requests of the response still to be processed
    result,         \* what run returned
    runs,           \* the runs started on the agent
    calls,          \* history: the calls of call_llm of this run, each with the
                    \* messages it was given and the response it gave
    invoked,        \* history: the tool functions called in this run
    batch,          \* history: the call requests of the last response
    base,           \* history: the length of the transcript when it came
    requests,       \* history: the call requests received in this run
    interp          \* the last call of _parse_llm_response made on its own: the
                    \* text it was given and what it returned

vars == << tools, db, chat_history, pc, max_steps, step, tool_calls, result, runs,
           calls, invoked, batch, base, requests, interp >>

\* The variables of the agent and its runs.
agent == << tools, db, chat_history, pc, max_steps, step, tool_calls, result, runs,
            calls, invoked, batch, base, requests >>

Returns == {"ret_final", "ret_error", "ret_unexpected", "ret_budget"}

\* The turns of the transcript.
TextTurn(role, content) == [role |-> role, content |-> content]
ToolTurn(content) == [role |-> "tool", tool_call_id |-> "mock_id", content |-> content]
AssistantCallTurn(tc) ==
    [role |-> "assistant",
     tool_calls |-> << [id |-> "mock_id", name |-> tc.name, arguments |-> tc.arguments] >>]

\* ReActAgent._initialize_system_message: the template with the descriptions
\* of the registered tools and the schema information.
SystemMessage(registry, initial_db_info) ==
    Tok("system_message_template", 400)
    \o (IF "sql_query" \in registry THEN Tok("  - sql_query: description", 60) ELSE << >>)
    \o (IF "describe_table" \in registry
        THEN Tok("  - describe_table: description", 60) ELSE << >>)
    \o initial_db_info

\* run, lines 97-115: the schema discovery.  info: the text for the system
\* message; called: the tool functions called.
SchemaDiscovery(registry, store) ==
    LET r == ToolRun("describe_table", {<< "table_name", "call_records" >>}, store)
        log == IF r.called
               THEN << [name |-> "describe_table", arguments |-> "call_records"] >>
               ELSE << >>
    IN  IF "describe_table" \notin registry
        THEN [called |-> << >>,
              info |-> Tok("Table 'call_records' is the primary table.", 114)]
        ELSE IF r.out.raised
        THEN [called |-> log,
              info |-> Tok("Error executing describe_table during init: ", 44)
                       \o r.out.message]
        ELSE IF ~IsEmptyFrame(r.out.value)
        THEN [called |-> log,
              info |-> Tok("Table 'call_records' schema:\n", 29) \o ToMarkdown(r.out.value)]
        ELSE [called |-> log,
              info |-> Tok("Could not retrieve schema for 'call_records': ", 46)
                       \o EmptyFrameStr]

\* run, line 137.
NotFoundObservation(name) ==
    Tok("Error: Tool '", 13) \o NameText(name) \o Tok("' not found.", 12)

\* run, line 145.
ParseErrorObservation(name, a) ==
    Tok("Error parsing tool arguments for ", 33) \o NameText(name) \o Tok(": ", 2)
    \o Tok("JSONDecodeError", 46) \o Tok(". Raw arguments: ", 17) \o ArgText(a)

\* run, line 163.
TRUNCATION_NOTICE ==
    Tok("\n... (results truncated due to length, showing first 5 rows)", 60)

\* run, lines 159-165: the text of a tool's result.
FormatObservation(out) ==
    IF out.isframe
    THEN IF StrLen(ToMarkdown(out.value)) > TRUNCATE_LIMIT
         THEN ToMarkdown(HeadRows(out.value, HEAD_ROWS)) \o TRUNCATION_NOTICE
         ELSE ToMarkdown(out.value)
    ELSE out.message

\* run, line 168.
ExecutionFailed(message) == Tok("Tool execution failed: ", 23) \o message

\* run, lines 156-168: the tool is run on the parsed arguments (a value that
\* is no dict cannot be passed as keywords: a TypeError) and its result or
\* its exception becomes the observation.
InvokeTool(name, parsed, store) ==
    LET r == ToolRun(name, parsed.items, store)
    IN  IF ~parsed.isdict
        THEN [called |-> FALSE,
              observation |-> ExecutionFailed(Tok("argument after ** must be a mapping", 55))]
        ELSE IF r.out.raised
        THEN [called |-> r.called, observation |-> ExecutionFailed(r.out.message)]
        ELSE [called |-> r.called, observation |-> FormatObservation(r.out)]

\* A dispatch that skips an unknown tool without an observation.
ProcessToolCall_SilentSkip(tc, registry, store) ==
    LET parsed == JsonLoads(tc.arguments)
        r == InvokeTool(tc.name, parsed, store)
    IN  IF tc.name \notin registry
        THEN [turns |-> << >>, called |-> << >>]
        ELSE IF parsed.err
        THEN [turns |-> << ToolTurn(ParseErrorObservation(tc.name, tc.arguments)) >>,
              called |-> << >>]
        ELSE [turns |-> << AssistantCallTurn(tc), ToolTurn(r.observation) >>,
              called |-> IF r.called THEN << tc >> ELSE << >>]

\* A dispatch without the check of line 136: an unknown tool is parsed for and
\* run like a known one.
ProcessToolCall_NoLookup(tc, registry, store) ==
    LET parsed == JsonLoads(tc.arguments)
        r == InvokeTool(tc.name, parsed, store)
    IN  IF parsed.err
        THEN [turns |-> << ToolTurn(ParseErrorObservation(tc.name, tc.arguments)) >>,
              called |-> << >>]
        ELSE [turns |-> << AssistantCallTurn(tc), ToolTurn(r.observation) >>,
              called |-> IF r.called THEN << tc >> ELSE << >>]

\* A dispatch without the handler of line 144: a malformed payload goes on to
\* the tool, whose failure is the observation.
ProcessToolCall_NoParseCheck(tc, registry, store) ==
    LET parsed == JsonLoads(tc.arguments)
        r == InvokeTool(tc.name, parsed, store)
    IN  IF tc.name \notin registry
        THEN [turns |-> << ToolTurn(NotFoundObservation(tc.name)) >>, called |-> << >>]
        ELSE [turns |-> << AssistantCallTurn(tc), ToolTurn(r.observation) >>,
              called |-> IF r.called THEN << tc >> ELSE << >>]

\* run, lines 132-171: one call request is processed.  turns: what is
\* appended to the transcript; called: the tool functions called.
ProcessToolCall(tc, registry, store) ==
    LET parsed == JsonLoads(tc.arguments)
        r == InvokeTool(tc.name, parsed, store)
    IN  IF tc.name \notin registry
        THEN [turns |-> << ToolTurn(NotFoundObservation(tc.name)) >>, called |-> << >>]
        ELSE IF parsed.err
        THEN [turns |-> << ToolTurn(ParseErrorObservation(tc.name, tc.arguments)) >>,
              called |-> << >>]
        ELSE [turns |-> << AssistantCallTurn(tc), ToolTurn(r.observation) >>,
              called |-> IF r.called THEN << tc >> ELSE << >>]

\* A loop that runs once more than range(max_steps).
HasNextStep_OneMore(s, n) == s <= n

\* run, line 121: range(max_steps) has a next value.
HasNextStep(s, n) == s < n

\* run, line 189.
CommunicationErrorMessage(content) ==
    Tok("Agent terminated due to LLM communication error: ", 49) \o content

\* run, line 192.
UNEXPECTED_MESSAGE == Tok("Agent terminated due to unexpected LLM response type.", 53)

\* run, line 195.
BUDGET_MESSAGE == Tok("Max steps reached without providing a final answer.", 51)

\* ------------------------------------------------------------- the inputs

\* main.py, lines 47-52: the tasks, run one after the other on one agent.
Tasks == << Tok("task 1", 6), Tok("task 2", 6), Tok("task 3", 6), Tok("task 4", 6) >>

TXT_FINAL ==
    Chars(<< "F", "i", "n", "a", "l", " ", "A", "n", "s", "w", "e", "r", ":", " ",
             "4", "2" >>)
TXT_FINAL_LEAD == Chars(<< "\n" >>) \o TXT_FINAL
TXT_FINAL_TIGHT ==
    Chars(<< "F", "I", "N", "A", "L", " ", "a", "n", "s", "w", "e", "r", ":", "n",
             "o", " " >>)
TXT_THOUGHT == Chars(<< "T", "h", "o", "u", "g", "h", "t", ":", " ", "g", "o" >>)
TXT_PLAIN == Chars(<< "o", "k" >>)
TXT_ACTION ==
    Chars(<< "A", "c", "t", "i", "o", "n", ":", " ", "s", "q", "l", "_", "q", "u",
             "e", "r", "y", "(", "q", "u", "e", "r", "y", "=", "'", "S", "E", "L",
             "E", "C", "T", " ", "1", "'", ")" >>)
TXT_ACTION_BAD == Chars(<< "a", "c", "t", "i", "o", "n", ":", " ", "f" >>)

\* The texts the service answers with in a run.
Texts == {TXT_FINAL, TXT_FINAL_LEAD, TXT_FINAL_TIGHT, TXT_THOUGHT, TXT_PLAIN, TXT_ACTION}

ToolCallRequests ==
    {[name |-> "foo_tool", arguments |-> ARG_SMALL],
     [name |-> "sql_query", arguments |-> ARG_BAD],
     [name |-> "sql_query", arguments |-> ARG_NONE],
     [name |-> "sql_query", arguments |-> ARG_LONG],
     [name |-> "sql_query", arguments |-> ARG_WIDE]}

\* The batches of at most k call requests.
Batches(k) == UNION {[1 .. n -> ToolCallRequests] : n \in 1 .. k}

\* What an exchange with the service can come to: an exception, or a message
\* with call requests (at most k of them), with text, with both or with
\* neither.
FailedExchanges ==
    {[exc |-> e, tool_calls |-> << >>, content |-> << >>] : e \in ExceptionKinds}
TextMessages ==
    {[exc |-> "none", tool_calls |-> << >>, content |-> c] : c \in Texts}
EmptyMessages == {[exc |-> "none", tool_calls |-> << >>, content |-> << >>]}
\* The call requests that come with text in the same message.
RequestsWithText ==
    {[name |-> "foo_tool", arguments |-> ARG_SMALL],
     [name |-> "sql_query", arguments |-> ARG_LONG]}

ToolCallMessages(k) ==
    {[exc |-> "none", tool_calls |-> b, content |-> << >>] : b \in Batches(k)}
    \cup {[exc |-> "none", tool_calls |-> b, content |-> TXT_FINAL] :
             b \in UNION {[1 .. n -> RequestsWithText] : n \in 1 .. k}}

\* The agents and stores the runs are made on.
Environments ==
    {<< ALL_TOOLS, "ok" >>, << ALL_TOOLS, "no_table" >>, << ALL_TOOLS, "unavailable" >>,
     << {"sql_query"}, "ok" >>}

\* The free texts with an action the interpreter is given on its own.  A
\* text is written from its parts: what stands before the marker, the marker,
\* what stands between the marker and the name, the tool's name, and the
\* arguments, each with its key, its value as written and the value meant,
\* with a comma, or a comma and a space, between them.
MaxPairs == 2

ArgPair(key, raw, value) == [key |-> key, raw |-> raw, value |-> value]

ArgPairs ==
    {ArgPair(Chars(<< "q", "u", "e", "r", "y" >>), Chars(<< "'", "S", "E", "L", "E", "C", "T", " ", "1", "'" >>),
             Value("string", Chars(<< "S", "E", "L", "E", "C", "T", " ", "1" >>))),
     ArgPair(Chars(<< "l", "i", "m", "i", "t" >>), Chars(<< "5" >>), Value("number", Chars(<< "5" >>))),
     ArgPair(Chars(<< "n", "a", "m", "e" >>), Chars(<< "\"", "x", "\"" >>), Value("string", Chars(<< "x" >>))),
     ArgPair(Chars(<< "f", "l", "a", "g" >>), Chars(<< "t", "r", "u", "e" >>), Value("bool", TXT_TRUE)),
     ArgPair(Chars(<< "t" >>), Chars(<< "c", "a", "l", "l", "s" >>), Value("string", Chars(<< "c", "a", "l", "l", "s" >>))),
     ArgPair(Chars(<< "c", "o", "l", "s" >>), Chars(<< "'", "a", ",", " ", "b", "'" >>),
             Value("string", Chars(<< "a", ",", " ", "b" >>))),
     ArgPair(Chars(<< "q" >>), Chars(<< "'", "a", "\n", "b", "'" >>),
             Value("string", Chars(<< "a", "\n", "b" >>)))}

ArgLists ==
    {l \in UNION {[1 .. n -> ArgPairs] : n \in 0 .. MaxPairs} :
        \A i, j \in DOMAIN l : i # j => l[i].key # l[j].key}

ActionSources ==
    [lead : {<< >>, Chars(<< " " >>)},
     marker : {Chars(<< "A", "c", "t", "i", "o", "n", ":" >>), Chars(<< "A", "C", "T", "I", "O", "N", ":" >>)},
     gap : {<< >>, Chars(<< " " >>)},
     name : {Chars(<< "s", "q", "l", "_", "q", "u", "e", "r", "y" >>)},
     sep : {Chars(<< "," >>), Chars(<< ",", " " >>)},
     pairs : ArgLists]

RECURSIVE JoinPairs(_, _)
JoinPairs(pairs, sep) ==
    IF pairs = << >> THEN << >>
    ELSE Head(pairs).key \o Chars(<< "=" >>) \o Head(pairs).raw
         \o (IF Tail(pairs) = << >> THEN << >> ELSE sep \o JoinPairs(Tail(pairs), sep))

\* The text of a source.
Render(src) ==
    src.lead \o src.marker \o src.gap \o src.name
    \o Chars(<< "(" >>) \o JoinPairs(src.pairs, src.sep) \o Chars(<< ")" >>)

NO_SOURCE ==
    [lead |-> << >>, marker |-> << >>, gap |-> << >>, name |-> << >>, sep |-> << >>,
     pairs |-> << >>]

\* ------------------------------------------------------------ the actions

Init ==
    /\ \E env \in Environments : tools = env[1] /\ db = env[2]
    /\ chat_history = << >>
    /\ pc = "idle"
    /\ max_steps = 0
    /\ step = 0
    /\ tool_calls = << >>
    /\ result = << >>
    /\ runs = 0
    /\ calls = << >>
    /\ invoked = << >>
    /\ batch = << >>
    /\ base = 0
    /\ requests = 0
    /\ interp = [done |-> FALSE, src |-> NO_SOURCE, response_content |-> << >>,
                 parsed_response |-> ParseLLMResponse(<< >>)]

\* A run that keeps the transcript of the run before it: the system message
\* is set only when there is none, and the task is appended.
StartRun_KeepHistory(n) ==
    /\ pc \in {"idle"} \cup Returns
    /\ runs < Min(MaxRuns, Len(Tasks))
    /\ LET d == SchemaDiscovery(tools, db)
       IN  /\ chat_history' =
                 (IF chat_history = << >>
                  THEN << TextTurn("system", SystemMessage(tools, d.info)) >>
                  ELSE chat_history) \o << TextTurn("user", Tasks[runs + 1]) >>
           /\ invoked' = d.called
    /\ max_steps' = n
    /\ step' = 0
    /\ pc' = "loop"
    /\ tool_calls' = << >>
    /\ result' = << >>
    /\ runs' = runs + 1
    /\ calls' = << >>
    /\ batch' = << >>
    /\ base' = Len(chat_history')
    /\ requests' = 0
    /\ UNCHANGED << tools, db >>

\* A run without the handlers of lines 97-113: a schema discovery that raises
\* ends the run before the system message is built.
StartRun_DiscoveryFails(n) ==
    /\ pc \in {"idle"} \cup Returns
    /\ runs < Min(MaxRuns, Len(Tasks))
    /\ LET d == SchemaDiscovery(tools, db)
           raised == /\ "describe_table" \in tools
                     /\ ToolRun("describe_table", {<< "table_name", "call_records" >>},
                                db).out.raised
       IN  /\ invoked' = d.called
           /\ IF raised
              THEN /\ chat_history' = chat_history
                   /\ result' = d.info
                   /\ pc' = "ret_error"
                   /\ base' = Len(chat_history)
              ELSE /\ chat_history' = << TextTurn("system", SystemMessage(tools, d.info)),
                                         TextTurn("user", Tasks[runs + 1]) >>
                   /\ result' = << >>
                   /\ pc' = "loop"
                   /\ base' = 2
    /\ max_steps' = n
    /\ step' = 0
    /\ tool_calls' = << >>
    /\ runs' = runs + 1
    /\ calls' = << >>
    /\ batch' = << >>
    /\ requests' = 0
    /\ UNCHANGED << tools, db >>

\* main.py, line 56, and run(task, max_steps), lines 93-119: the next task is
\* run; the schema discovery, the system message and the user's task.
StartRun(n) ==
    /\ pc \in {"idle"} \cup Returns
    /\ runs < Min(MaxRuns, Len(Tasks))
    /\ LET d == SchemaDiscovery(tools, db)
       IN  /\ chat_history' = << TextTurn("system", SystemMessage(tools, d.info)),
                                 TextTurn("user", Tasks[runs + 1]) >>
           /\ invoked' = d.called
    /\ max_steps' = n
    /\ step' = 0
    /\ pc' = "loop"
    /\ tool_calls' = << >>
    /\ result' = << >>
    /\ runs' = runs + 1
    /\ calls' = << >>
    /\ batch' = << >>
    /\ base' = 2
    /\ requests' = 0
    /\ UNCHANGED << tools, db >>

\* The call of line 124 with the transcript as it stands: what the exchange
\* came to (exc: its exception, or "none"; content: the text of the message)
\* and the response of call_llm.
Called(outcome, r) ==
    Append(calls, [messages |-> chat_history, exc |-> outcome.exc,
                   content |-> outcome.content, response |-> r])

\* A run that reads the text of a message before its call requests: a final
\* answer that comes with call requests ends the run, and the requests are
\* left.
ReceiveToolCalls_TextFirst(outcome) ==
    LET r == CallLLM(outcome)
        final == ParseLLMResponse(outcome.content).type = "final_answer"
    IN  /\ pc = "loop"
        /\ HasNextStep(step, max_steps)
        /\ r.type = "tool_calls"
        /\ calls' = Called(outcome, r)
        /\ batch' = IF final THEN << >> ELSE r.tool_calls
        /\ tool_calls' = batch'
        /\ base' = Len(chat_history)
        /\ requests' = requests + Len(batch')
        /\ IF final
           THEN /\ chat_history' = Append(chat_history,
                                          TextTurn("assistant", outcome.content))
                /\ result' = ParseLLMResponse(outcome.content).content
                /\ pc' = "ret_final"
           ELSE /\ pc' = "dispatch"
                /\ UNCHANGED << chat_history, result >>
        /\ UNCHANGED << tools, db, max_steps, step, runs, invoked >>

\* Lines 129-131: the response carries call requests.
ReceiveToolCalls(outcome) ==
    LET r == CallLLM(outcome)
    IN  /\ pc = "loop"
        /\ HasNextStep(step, max_steps)
        /\ r.type = "tool_calls"
        /\ calls' = Called(outcome, r)
        /\ tool_calls' = r.tool_calls
        /\ batch' = r.tool_calls
        /\ base' = Len(chat_history)
        /\ requests' = requests + Len(r.tool_calls)
        /\ pc' = "dispatch"
        /\ UNCHANGED << tools, db, chat_history, max_steps, step, result, runs, invoked >>

\* A dispatch that keeps only the system message and the turns of the last
\* request (an assignment where the code appends).
DispatchToolCall_Overwrite ==
    /\ pc = "dispatch"
    /\ tool_calls # << >>
    /\ LET p == ProcessToolCall(Head(tool_calls), tools, db)
       IN  /\ chat_history' = << chat_history[1] >> \o p.turns
           /\ invoked' = invoked \o p.called
    /\ tool_calls' = Tail(tool_calls)
    /\ IF Tail(tool_calls) = << >>
       THEN step' = step + 1 /\ pc' = "loop"
       ELSE UNCHANGED << step, pc >>
    /\ UNCHANGED << tools, db, max_steps, result, runs, calls, batch, base, requests >>

\* A dispatch without the handler of line 167: the exception of a tool leaves
\* the run, and the rest of the batch is not processed.
DispatchToolCall_NoHandler ==
    /\ pc = "dispatch"
    /\ tool_calls # << >>
    /\ LET tc == Head(tool_calls)
           p == ProcessToolCall(tc, tools, db)
           parsed == JsonLoads(tc.arguments)
           failed == /\ tc.name \in tools
                     /\ ~parsed.err
                     /\ (~parsed.isdict \/ ToolRun(tc.name, parsed.items, db).out.raised)
       IN  /\ invoked' = invoked \o p.called
           /\ IF failed
              THEN /\ chat_history' = Append(chat_history, AssistantCallTurn(tc))
                   /\ tool_calls' = << >>
                   /\ result' = p.turns[2].content
                   /\ pc' = "ret_error"
                   /\ UNCHANGED step
              ELSE /\ chat_history' = chat_history \o p.turns
                   /\ tool_calls' = Tail(tool_calls)
                   /\ result' = result
                   /\ IF Tail(tool_calls) = << >>
                      THEN step' = step + 1 /\ pc' = "loop"
                      ELSE UNCHANGED << step, pc >>
    /\ UNCHANGED << tools, db, max_steps, runs, calls, batch, base, requests >>

\* A dispatch that leaves the batch after its first request (a break where
\* the code goes on): the next call of the service is made with requests of
\* the response unanswered.
DispatchToolCall_FirstOnly ==
    /\ pc = "dispatch"
    /\ tool_calls # << >>
    /\ LET p == ProcessToolCall(Head(tool_calls), tools, db)
       IN  /\ chat_history' = chat_history \o p.turns
           /\ invoked' = invoked \o p.called
    /\ tool_calls' = << >>
    /\ step' = step + 1
    /\ pc' = "loop"
    /\ UNCHANGED << tools, db, max_steps, result, runs, calls, batch, base, requests >>


\* A dispatch that counts a step for every call request, not for the
\* response.
DispatchToolCall_StepPerRequest ==
    /\ pc = "dispatch"
    /\ tool_calls # << >>
    /\ LET p == ProcessToolCall(Head(tool_calls), tools, db)
       IN  /\ chat_history' = chat_history \o p.turns
           /\ invoked' = invoked \o p.called
    /\ tool_calls' = Tail(tool_calls)
    /\ step' = step + 1
    /\ pc' = IF Tail(tool_calls) = << >> THEN "loop" ELSE "dispatch"
    /\ UNCHANGED << tools, db, max_steps, result, runs, calls, batch, base, requests >>

\* Lines 131-171: the next call request of the response is processed; after
\* the last one the iteration is over.
DispatchToolCall ==
    /\ pc = "dispatch"
    /\ tool_calls # << >>
    /\ LET p == ProcessToolCall(Head(tool_calls), tools, db)
       IN  /\ chat_history' = chat_history \o p.turns
           /\ invoked' = invoked \o p.called
    /\ tool_calls' = Tail(tool_calls)
    /\ IF Tail(tool_calls) = << >>
       THEN step' = step + 1 /\ pc' = "loop"
       ELSE UNCHANGED << step, pc >>
    /\ UNCHANGED << tools, db, max_steps, result, runs, calls, batch, base, requests >>

\* A text branch that gives up on a text it cannot place: only a thought
\* leaves the loop running.
ReceiveText_StopOnUnparsed(outcome) ==
    LET r == CallLLM(outcome)
        parsed_response == ParseLLMResponse(r.content)
    IN  /\ pc = "loop"
        /\ HasNextStep(step, max_steps)
        /\ r.type = "text"
        /\ calls' = Called(outcome, r)
        /\ chat_history' = Append(chat_history, TextTurn("assistant", r.content))
        /\ batch' = << >>
        /\ base' = Len(chat_history)
        /\ IF parsed_response.type = "final_answer"
           THEN /\ result' = parsed_response.content
                /\ pc' = "ret_final"
                /\ UNCHANGED step
           ELSE IF parsed_response.type = "thought"
           THEN /\ step' = step + 1
                /\ UNCHANGED << result, pc >>
           ELSE /\ result' = UNEXPECTED_MESSAGE
                /\ pc' = "ret_unexpected"
                /\ UNCHANGED step
        /\ UNCHANGED << tools, db, max_steps, tool_calls, runs, invoked, requests >>

\* A text branch in which a text that is no final answer does not count as a
\* step: the loop asks again for as long as such texts come.
ReceiveText_NoStep(outcome) ==
    LET r == CallLLM(outcome)
        parsed_response == ParseLLMResponse(r.content)
    IN  /\ pc = "loop"
        /\ HasNextStep(step, max_steps)
        /\ r.type = "text"
        /\ calls' = Called(outcome, r)
        /\ chat_history' = Append(chat_history, TextTurn("assistant", r.content))
        /\ batch' = << >>
        /\ base' = Len(chat_history)
        /\ IF parsed_response.type = "final_answer"
           THEN /\ result' = parsed_response.content
                /\ pc' = "ret_final"
           ELSE UNCHANGED << result, pc >>
        /\ UNCHANGED << tools, db, max_steps, step, tool_calls, runs, invoked, requests >>

\* A text branch that keeps no record of a text without a marker: only
\* thoughts, actions and final answers are appended.
ReceiveText_DropRemark(outcome) ==
    LET r == CallLLM(outcome)
        parsed_response == ParseLLMResponse(r.content)
    IN  /\ pc = "loop"
        /\ HasNextStep(step, max_steps)
        /\ r.type = "text"
        /\ calls' = Called(outcome, r)
        /\ chat_history' = IF parsed_response.type = "text"
                           THEN chat_history
                           ELSE Append(chat_history, TextTurn("assistant", r.content))
        /\ batch' = << >>
        /\ base' = Len(chat_history)
        /\ IF parsed_response.type = "final_answer"
           THEN /\ result' = parsed_response.content
                /\ pc' = "ret_final"
                /\ UNCHANGED step
           ELSE /\ step' = step + 1
                /\ UNCHANGED << result, pc >>
        /\ UNCHANGED << tools, db, max_steps, tool_calls, runs, invoked, requests >>

\* A text branch that runs the tool of a free-text action (the legacy ReAct
\* loop): the action is processed like a call request.
ReceiveText_RunAction(outcome) ==
    LET r == CallLLM(outcome)
        parsed_response == ParseLLMResponse(r.content)
        tc == [name |-> IF parsed_response.tool_name = Chars(<< "s", "q", "l", "_", "q",
                                                                "u", "e", "r", "y" >>)
                        THEN "sql_query" ELSE "foo_tool",
               arguments |-> ARG_SMALL]
        p == ProcessToolCall(tc, tools, db)
    IN  /\ pc = "loop"
        /\ HasNextStep(step, max_steps)
        /\ r.type = "text"
        /\ calls' = Called(outcome, r)
        /\ batch' = << >>
        /\ base' = Len(chat_history)
        /\ IF parsed_response.type = "action"
           THEN /\ chat_history' = Append(chat_history, TextTurn("assistant", r.content))
                                   \o p.turns
                /\ invoked' = invoked \o p.called
           ELSE /\ chat_history' = Append(chat_history, TextTurn("assistant", r.content))
                /\ invoked' = invoked
        /\ IF parsed_response.type = "final_answer"
           THEN /\ result' = parsed_response.content
                /\ pc' = "ret_final"
                /\ UNCHANGED step
           ELSE /\ step' = step + 1
                /\ UNCHANGED << result, pc >>
        /\ UNCHANGED << tools, db, max_steps, tool_calls, runs, requests >>

\* Lines 173-186: the response is text.
ReceiveText(outcome) ==
    LET r == CallLLM(outcome)
        parsed_response == ParseLLMResponse(r.content)
    IN  /\ pc = "loop"
        /\ HasNextStep(step, max_steps)
        /\ r.type = "text"
        /\ calls' = Called(outcome, r)
        /\ chat_history' = Append(chat_history, TextTurn("assistant", r.content))
        /\ batch' = << >>
        /\ base' = Len(chat_history)
        /\ IF parsed_response.type = "final_answer"
           THEN /\ result' = parsed_response.content
                /\ pc' = "ret_final"
                /\ UNCHANGED step
           ELSE /\ step' = step + 1
                /\ UNCHANGED << result, pc >>
        /\ UNCHANGED << tools, db, max_steps, tool_calls, runs, invoked, requests >>

\* An error branch that notes the failure in the transcript and tries again
\* in the next iteration.
ReceiveError_Retry(outcome) ==
    LET r == CallLLM(outcome)
    IN  /\ pc = "loop"
        /\ HasNextStep(step, max_steps)
        /\ r.type = "error"
        /\ calls' = Called(outcome, r)
        /\ chat_history' = Append(chat_history, TextTurn("assistant", r.content))
        /\ step' = step + 1
        /\ batch' = << >>
        /\ base' = Len(chat_history)
        /\ UNCHANGED << tools, db, max_steps, tool_calls, result, pc, runs, invoked,
                        requests >>

\* Lines 187-189: the call failed.
ReceiveError(outcome) ==
    LET r == CallLLM(outcome)
    IN  /\ pc = "loop"
        /\ HasNextStep(step, max_steps)
        /\ r.type = "error"
        /\ calls' = Called(outcome, r)
        /\ result' = CommunicationErrorMessage(r.content)
        /\ pc' = "ret_error"
        /\ batch' = << >>
        /\ base' = Len(chat_history)
        /\ UNCHANGED << tools, db, chat_history, max_steps, step, tool_calls, runs,
                        invoked, requests >>

\* Lines 190-192: a response of any other type (call_llm's "empty").
ReceiveUnexpected(outcome) ==
    LET r == CallLLM(outcome)
    IN  /\ pc = "loop"
        /\ HasNextStep(step, max_steps)
        /\ r.type \notin {"tool_calls", "text", "error"}
        /\ calls' = Called(outcome, r)
        /\ result' = UNEXPECTED_MESSAGE
        /\ pc' = "ret_unexpected"
        /\ batch' = << >>
        /\ base' = Len(chat_history)
        /\ UNCHANGED << tools, db, chat_history, max_steps, step, tool_calls, runs,
                        invoked, requests >>

\* Lines 194-195: the loop is over.
ReturnBudget ==
    /\ pc = "loop"
    /\ ~HasNextStep(step, max_steps)
    /\ result' = BUDGET_MESSAGE
    /\ pc' = "ret_budget"
    /\ UNCHANGED << tools, db, chat_history, max_steps, step, tool_calls, runs, calls,
                    invoked, batch, base, requests >>

Next ==
    \/ \E n \in 0 .. MaxSteps : StartRun(n) /\ UNCHANGED interp
    \/ \E outcome \in ToolCallMessages(MaxRequests - requests) :
           ReceiveToolCalls(outcome) /\ UNCHANGED interp
    \/ DispatchToolCall /\ UNCHANGED interp
    \/ \E outcome \in TextMessages : ReceiveText(outcome) /\ UNCHANGED interp
    \/ \E outcome \in FailedExchanges : ReceiveError(outcome) /\ UNCHANGED interp
    \/ \E outcome \in EmptyMessages : ReceiveUnexpected(outcome) /\ UNCHANGED interp
    \/ ReturnBudget /\ UNCHANGED interp

Spec == Init /\ [][Next]_vars

\* _parse_llm_response(response_content), called on the text of a source.
Interpret(src) ==
    /\ ~interp.done
    /\ interp' = [done |-> TRUE, src |-> src, response_content |-> Render(src),
                  parsed_response |-> ParseLLMResponse(Render(src))]
    /\ UNCHANGED agent

\* The interpreter on its own, given a text.
ParseNext == \E src \in ActionSources : Interpret(src)

ParseSpec == Init /\ [][ParseNext]_vars


\* ------------------------------------------------------------- properties

Done == pc \in Returns

LastCall == calls[Len(calls)]

\* The response is a text that the interpreter classifies as a final answer.
IsFinalAnswer(r) == r.type = "text" /\ ParseLLMResponse(r.content).type = "final_answer"
IsError(r) == r.type = "error"
\* The response has call requests, or is a text that is no final answer.
LeavesLoopRunning(r) == r.type = "tool_calls" \/ (r.type = "text" /\ ~IsFinalAnswer(r))

IsPrefix(a, b) == Len(a) <= Len(b) /\ SubSeq(b, 1, Len(a)) = a

\* C1, as the specification states it: a run makes at most max_steps calls of
\* the reasoning service, and when none of the responses is a final answer or
\* an error it returns the budget message after exactly max_steps calls.
C1_Original ==
    /\ Len(calls) <= max_steps
    /\ (Done /\ \A i \in 1 .. Len(calls) :
                    ~IsFinalAnswer(calls[i].response) /\ ~IsError(calls[i].response))
       => (result = BUDGET_MESSAGE /\ Len(calls) = max_steps)

\* C1, amended: a run makes at most max_steps calls of the reasoning service,
\* and when none of the responses is a final answer, an error or a message
\* with neither call requests nor text, it returns the budget message after
\* exactly max_steps calls.
C1_StepBudget ==
    /\ Len(calls) <= max_steps
    /\ (Done /\ \A i \in 1 .. Len(calls) : LeavesLoopRunning(calls[i].response))
       => (result = BUDGET_MESSAGE /\ Len(calls) = max_steps)

\* C1: a run of two or more steps has used up its budget.
C1_Witness ==
    /\ pc = "ret_budget"
    /\ max_steps >= 2
    /\ Len(calls) = max_steps
    /\ result = BUDGET_MESSAGE


\* The tool-result turns appended since the last response came.
ToolTurnsSinceResponse ==
    SelectSeq(SubSeq(chat_history, base + 1, Len(chat_history)), LAMBDA t : t.role = "tool")

\* The observation a call request is to get: a not-found message for an
\* unknown tool, the parse failure for a malformed payload, and else what
\* running the tool gives.
IsObservationOf(content, tc) ==
    IF tc.name \notin tools
    THEN content = NotFoundObservation(tc.name)
    ELSE IF JsonLoads(tc.arguments).err
    THEN content = ParseErrorObservation(tc.name, tc.arguments)
    ELSE content = InvokeTool(tc.name, JsonLoads(tc.arguments), db).observation

\* C2: the tool-result turns appended since a response came are as many as
\* the requests of it processed so far, the i-th of them the observation of
\* the i-th request; when the response is processed, as many as it carries.
C2_OneResultPerRequest ==
    LET tt == ToolTurnsSinceResponse
    IN  /\ Len(tt) = Len(batch) - Len(tool_calls)
        /\ pc # "dispatch" => tool_calls = << >>
        /\ \A i \in 1 .. Len(tt) : IsObservationOf(tt[i].content, batch[i])

\* C2: a response with two requests, the first for an unknown tool and the
\* second run, is processed to the end.
C2_Witness ==
    /\ pc = "loop"
    /\ Len(batch) = 2
    /\ batch[1].name \notin tools
    /\ batch[2] = [name |-> "sql_query", arguments |-> ARG_LONG]
    /\ Len(ToolTurnsSinceResponse) = 2
    /\ invoked # << >>
    /\ invoked[Len(invoked)] = batch[2]


\* What run returns at each of its returns, given the last response.
ReturnsFinalAnswer ==
    /\ calls # << >>
    /\ IsFinalAnswer(LastCall.response)
    /\ result = ParseLLMResponse(LastCall.response.content).content
ReturnsCommunicationError ==
    /\ calls # << >>
    /\ IsError(LastCall.response)
    /\ result = CommunicationErrorMessage(LastCall.response.content)
ReturnsBudgetNotice ==
    /\ result = BUDGET_MESSAGE
    /\ Len(calls) = max_steps
    /\ \A i \in 1 .. Len(calls) : LeavesLoopRunning(calls[i].response)
ReturnsUnexpectedNotice ==
    /\ calls # << >>
    /\ LastCall.response.type = "empty"
    /\ result = UNEXPECTED_MESSAGE

\* C3, as the specification states it: a run returns a final answer, a
\* communication-error explanation or the budget notice; it ends before its
\* budget is used up only on a final answer or a communication error, and any
\* other response leaves the loop running.
C3_Original ==
    /\ \A i \in 1 .. (Len(calls) - 1) : LeavesLoopRunning(calls[i].response)
    /\ (~Done /\ calls # << >>) => LeavesLoopRunning(LastCall.response)
    /\ Done => (ReturnsFinalAnswer \/ ReturnsCommunicationError \/ ReturnsBudgetNotice)

\* C3, amended: a run returns a final answer, a communication-error
\* explanation, the budget notice or the unexpected-response notice; it ends
\* before its budget is used up only on a final answer, a communication error
\* or a message with neither call requests nor text, and a response with call
\* requests or any other text leaves the loop running.
C3_TerminalStates ==
    /\ \A i \in 1 .. (Len(calls) - 1) : LeavesLoopRunning(calls[i].response)
    /\ (~Done /\ calls # << >>) => LeavesLoopRunning(LastCall.response)
    /\ Done => \/ ReturnsFinalAnswer
               \/ ReturnsCommunicationError
               \/ ReturnsBudgetNotice
               \/ ReturnsUnexpectedNotice

\* C3: a run ends on a message with neither call requests nor text, after a
\* thought and with a step of its budget left.
C3_Witness ==
    /\ pc = "ret_unexpected"
    /\ Len(calls) = 2
    /\ step < max_steps
    /\ calls[1].response.content = TXT_THOUGHT
    /\ ReturnsUnexpectedNotice


\* A step in which a call of the reasoning service fails.
CallFails ==
    /\ Len(calls') = Len(calls) + 1
    /\ calls'[Len(calls')].response.type = "error"

\* C4: a failed call ends the run at that step: the step appends nothing to
\* the transcript and calls no tool, run returns a message that holds the
\* error text ("Connection Error" for a connection failure), and the agent's
\* next step, if any, is the start of another run.
C4_ErrorEndsRun ==
    /\ [][CallFails =>
            /\ pc' = "ret_error"
            /\ chat_history' = chat_history
            /\ invoked' = invoked
            /\ step' = step
            /\ Contains(result', calls'[Len(calls')].response.content)
            /\ calls'[Len(calls')].exc = "ConnectionError"
                  => Contains(result', Tok("Connection Error: ", 18))]_vars
    /\ [][pc = "ret_error" => (runs' = runs + 1 /\ calls' = << >>)]_vars

\* C4: a connection failure at the second call, after a tool was run, has
\* ended the run.
C4_Witness ==
    /\ pc = "ret_error"
    /\ Len(calls) = 2
    /\ LastCall.exc = "ConnectionError"
    /\ calls[1].response.type = "tool_calls"
    /\ Len(invoked) >= 1
    /\ chat_history = LastCall.messages
    /\ Contains(result, Tok("Connection Error: ", 18))

\* The observations of tool results in the transcript: the tool-result turns
\* that follow the assistant turn of their request.
ToolResultObservations ==
    {chat_history[i].content : i \in
        {j \in 2 .. Len(chat_history) :
            /\ chat_history[j].role = "tool"
            /\ chat_history[j - 1].role = "assistant"
            /\ "tool_calls" \in DOMAIN chat_history[j - 1]}}

EndsWith(t, suffix) ==
    Len(t) >= Len(suffix) /\ SubSeq(t, Len(t) - Len(suffix) + 1, Len(t)) = suffix

\* C5: every observation of a tool result is at most 2000 characters long,
\* plus the truncation notice when it was cut.
C5_ObservationBound ==
    \A o \in ToolResultObservations :
        IF EndsWith(o, TRUNCATION_NOTICE)
        THEN StrLen(o) <= TRUNCATE_LIMIT + StrLen(TRUNCATION_NOTICE)
        ELSE StrLen(o) <= TRUNCATE_LIMIT

\* C6: when the last response is classified as a final answer, run returns
\* the text after the marker, stripped, and the response is the last turn of
\* the transcript.
C6_FinalAnswerContent ==
    pc = "ret_final" =>
        LET text == Strip(LastCall.response.content)
        IN  /\ StartsWith(Lower(text), FINAL_MARKER)
            /\ result = Strip(SliceFrom(text, Len(FINAL_MARKER)))
            /\ chat_history[Len(chat_history)]
                   = TextTurn("assistant", LastCall.response.content)


SystemTurns == {i \in DOMAIN chat_history : chat_history[i].role = "system"}

\* C7: in a run the transcript has one system turn, its first, which is the
\* one every call of the reasoning service saw; the transcript a call saw is
\* a prefix of the one every later call saw and of the transcript as it
\* stands; and a step of the run only appends to the transcript.
C7_TranscriptAppendOnly ==
    /\ [](pc # "idle" =>
            /\ SystemTurns = {1}
            /\ \A i \in 1 .. Len(calls) :
                  /\ IsPrefix(calls[i].messages, chat_history)
                  /\ calls[i].messages[1] = chat_history[1]
                  /\ \A j \in i .. Len(calls) :
                        IsPrefix(calls[i].messages, calls[j].messages))
    /\ [][runs' = runs => IsPrefix(chat_history, chat_history')]_vars

\* C7: the second call of a run saw the transcript of the first and the turns
\* of a tool call after it.
C7_Witness ==
    /\ Len(calls) = 2
    /\ calls[1].response.type = "tool_calls"
    /\ Len(calls[2].messages) > Len(calls[1].messages)
    /\ IsPrefix(calls[1].messages, calls[2].messages)
    /\ calls[2].messages[Len(calls[2].messages)].role = "tool"

\* The transcript a run starts with: the system message and the run's task.
FreshTranscript ==
    << TextTurn("system", SystemMessage(tools, SchemaDiscovery(tools, db).info)),
       TextTurn("user", Tasks[runs]) >>

\* C8: however the run before it ended, a run starts with the system message
\* and its own task as the whole transcript, and that is the transcript its
\* first call of the reasoning service sees.
C8_RunsShareNoTranscript ==
    /\ [](calls # << >> => calls[1].messages = FreshTranscript)
    /\ [][runs' = runs + 1 =>
            /\ chat_history' = FreshTranscript'
            /\ pc' = "loop"
            /\ step' = 0
            /\ calls' = << >>]_vars

\* C8: the second run on an agent has made its first call.
C8_Witness ==
    /\ runs = 2
    /\ Len(calls) = 1
    /\ calls[1].messages = FreshTranscript
    /\ calls[1].messages[2].content = Tasks[2]

\* A step that processes one call request appends one tool-result turn.
AppendsOneToolTurn ==
    /\ Len(chat_history') = Len(chat_history) + 1
    /\ IsPrefix(chat_history, chat_history')
    /\ chat_history'[Len(chat_history')].role = "tool"

\* After a request the next request of the batch is up or, after the last,
\* the loop goes on to its next iteration.
BatchGoesOn ==
    /\ tool_calls' = Tail(tool_calls)
    /\ result' = result
    /\ IF Tail(tool_calls) = << >>
       THEN pc' = "loop" /\ step' = step + 1
       ELSE pc' = "dispatch" /\ step' = step

\* C9: a call request for a tool that is not registered gets a tool-result
\* turn with a not-found message that names it, no tool is called for it, and
\* the batch and the run go on.
C9_UnknownTool ==
    [][(pc = "dispatch" /\ Head(tool_calls).name \notin tools) =>
        /\ AppendsOneToolTurn
        /\ Contains(chat_history'[Len(chat_history')].content, Tok("' not found.", 12))
        /\ Contains(chat_history'[Len(chat_history')].content,
                    NameText(Head(tool_calls).name))
        /\ invoked' = invoked
        /\ BatchGoesOn]_vars

\* C9: the first request of a batch of two was for an unknown tool, and the
\* second is up.
C9_Witness ==
    /\ pc = "dispatch"
    /\ Len(batch) = 2
    /\ Len(tool_calls) = 1
    /\ batch[1].name \notin tools
    /\ chat_history[Len(chat_history)] = ToolTurn(NotFoundObservation(batch[1].name))

\* C10: a call request for a registered tool with a malformed payload gets a
\* tool-result turn that describes the parse failure, the tool is not
\* called for it, and the batch goes on.
C10_MalformedPayload ==
    [][(/\ pc = "dispatch"
        /\ Head(tool_calls).name \in tools
        /\ JsonLoads(Head(tool_calls).arguments).err) =>
        /\ AppendsOneToolTurn
        /\ Contains(chat_history'[Len(chat_history')].content,
                    Tok("Error parsing tool arguments for ", 33)
                    \o NameText(Head(tool_calls).name))
        /\ Contains(chat_history'[Len(chat_history')].content,
                    ArgText(Head(tool_calls).arguments))
        /\ invoked' = invoked
        /\ BatchGoesOn]_vars

\* C10: a batch of a malformed request and a well-formed one is processed:
\* the parse failure first, then the call and its result.
C10_Witness ==
    /\ pc = "loop"
    /\ batch = << [name |-> "sql_query", arguments |-> ARG_BAD],
                  [name |-> "sql_query", arguments |-> ARG_LONG] >>
    /\ Len(chat_history) = base + 3
    /\ chat_history[base + 1] = ToolTurn(ParseErrorObservation("sql_query", ARG_BAD))
    /\ chat_history[base + 2] = AssistantCallTurn(batch[2])
    /\ chat_history[base + 3].role = "tool"
    /\ invoked[Len(invoked)] = batch[2]

\* The tool of a call request is registered, the payload is parsed, and the
\* invocation fails: the arguments are not validated (or cannot be passed as
\* keywords), or the tool function raises.
ToolFails(tc) ==
    LET parsed == JsonLoads(tc.arguments)
    IN  /\ tc.name \in tools
        /\ ~parsed.err
        /\ (~parsed.isdict \/ ToolRun(tc.name, parsed.items, db).out.raised)

FAILURE_NOTICE == Tok("Tool execution failed: ", 23)

\* C11: when the invocation of a tool fails, by the validation of its
\* arguments or by an exception inside the tool, the run does not end: the
\* request's assistant turn and one tool-result turn with the failure notice
\* are appended, and the batch and the loop go on.
C11_ToolFailure ==
    [][(pc = "dispatch" /\ ToolFails(Head(tool_calls))) =>
        /\ Len(chat_history') = Len(chat_history) + 2
        /\ IsPrefix(chat_history, chat_history')
        /\ chat_history'[Len(chat_history) + 1] = AssistantCallTurn(Head(tool_calls))
        /\ chat_history'[Len(chat_history) + 2].role = "tool"
        /\ StartsWith(chat_history'[Len(chat_history) + 2].content, FAILURE_NOTICE)
        /\ BatchGoesOn]_vars

\* C11: on a store that cannot be opened, a batch of a request without the
\* required argument and a well-formed request is processed: both fail, the
\* first in the validation and the second inside the tool, both have their
\* failure notices, and the loop is at its next iteration.
C11_Witness ==
    /\ pc = "loop"
    /\ db = "unavailable"
    /\ batch = << [name |-> "sql_query", arguments |-> ARG_NONE],
                  [name |-> "sql_query", arguments |-> ARG_LONG] >>
    /\ Len(chat_history) = base + 4
    /\ Contains(chat_history[base + 2].content, Tok("' argument validation failed: ", 30))
    /\ chat_history[base + 4].content
         = FAILURE_NOTICE \o Tok("unable to open database file", 28)
    /\ step = 1

\* What the schema discovery calls: describe_table on call_records, once,
\* when the tool is registered.
DiscoveryLog ==
    IF "describe_table" \in tools
    THEN << [name |-> "describe_table", arguments |-> "call_records"] >>
    ELSE << >>

\* What the schema discovery leaves in the system message: the schema, or a
\* note that there is none, or the error, or the placeholder.
DiscoveryNote ==
    IF "describe_table" \notin tools THEN Tok("Table 'call_records' is the primary table.", 114)
    ELSE IF db = "unavailable" THEN Tok("Error executing describe_table during init: ", 44)
    ELSE IF db = "no_table" THEN Tok("Could not retrieve schema for 'call_records': ", 46)
    ELSE Tok("Table 'call_records' schema:\n", 29)

\* The transcript t is a system turn with the note of the schema discovery
\* and the user's task of the run.
IsOpening(t) ==
    /\ Len(t) = 2
    /\ t[1].role = "system"
    /\ Contains(t[1].content, DiscoveryNote)
    /\ t[2] = TextTurn("user", Tasks[runs])

\* C12: describe_table, when registered, is called once before the first call
\* of the service, and whatever the discovery comes to (no such tool, an
\* empty result, an exception) the run builds the system turn, appends the
\* task and comes to the loop, and to its first call of the service, with
\* the step counter at zero.
C12_SchemaDiscovery ==
    [][/\ (runs' # runs =>
              /\ pc' = "loop"
              /\ step' = 0
              /\ calls' = << >>
              /\ invoked' = (IF "describe_table" \in tools
                             THEN << [name |-> "describe_table",
                                      arguments |-> "call_records"] >>
                             ELSE << >>)
              /\ chat_history'[1].role = "system"
              /\ chat_history'[2] = TextTurn("user", Tasks[runs'])
              /\ Len(chat_history') = 2)
       /\ ((calls = << >> /\ calls' # << >>) =>
              /\ step = 0
              /\ invoked = DiscoveryLog
              /\ IsOpening(chat_history)
              /\ calls'[1].messages = chat_history)]_vars

\* C12: on a store that cannot be opened the schema discovery has raised, and
\* the first call of the service is made with the step counter at zero.
C12_Witness ==
    /\ "describe_table" \in tools
    /\ db = "unavailable"
    /\ pc = "dispatch"
    /\ Len(calls) = 1
    /\ step = 0
    /\ IsOpening(calls[1].messages)
    /\ invoked = DiscoveryLog

\* The call requests that the assistant turns before turn j hold under the
\* correlation identifier id: pairs of the turn and the place in it.
RequestsBefore(j, id) ==
    {ik \in (1 .. (j - 1)) \X (1 .. MaxRequests + 1) :
        /\ chat_history[ik[1]].role = "assistant"
        /\ "tool_calls" \in DOMAIN chat_history[ik[1]]
        /\ ik[2] \in DOMAIN chat_history[ik[1]].tool_calls
        /\ chat_history[ik[1]].tool_calls[ik[2]].id = id}

\* C13: the correlation identifier of every tool-result turn is that of
\* exactly one call request, held by an assistant turn earlier in the
\* transcript.
C13_CorrelationIds ==
    \A j \in DOMAIN chat_history :
        chat_history[j].role = "tool" =>
            Cardinality(RequestsBefore(j, chat_history[j].tool_call_id)) = 1

\* The tool-result turns of a transcript.
ToolTurnsOf(t) == SelectSeq(t, LAMBDA turn : turn.role = "tool")

\* C14: one thing is under way at a time.  While a response's requests are
\* processed no call of the service is made; each step processes the request
\* at the head of those left, calls at most its tool, and ends with its
\* result turn in the transcript; and a call of the service is made only
\* when no request is left, with the result turns of all the requests of
\* the response before it in the transcript it is given.
C14_OneAtATime ==
    [][/\ (pc = "dispatch" =>
              /\ calls' = calls
              /\ tool_calls' = Tail(tool_calls)
              /\ invoked' \in {invoked, Append(invoked, Head(tool_calls))}
              /\ IsPrefix(chat_history, chat_history')
              /\ chat_history'[Len(chat_history')].role = "tool"
              /\ IsObservationOf(chat_history'[Len(chat_history')].content,
                                 Head(tool_calls)))
       /\ ((runs' = runs /\ calls' # calls) =>
              /\ pc = "loop"
              /\ tool_calls = << >>
              /\ invoked' = invoked
              /\ calls' = Append(calls, calls'[Len(calls')])
              /\ calls'[Len(calls')].messages = chat_history
              /\ Len(ToolTurnsSinceResponse) = Len(batch)
              /\ (calls # << >> /\ LastCall.response.type = "tool_calls" =>
                     Len(ToolTurnsOf(chat_history))
                       = Len(ToolTurnsOf(LastCall.messages))
                         + Len(LastCall.response.tool_calls)))]_vars

\* C14: the second call of a run is made after a response with two requests,
\* and the transcript it is given holds the two result turns.
C14_Witness ==
    /\ Len(calls) = 2
    /\ Len(calls[1].response.tool_calls) = 2
    /\ Len(ToolTurnsOf(calls[2].messages)) = 2
    /\ calls[2].messages[Len(calls[2].messages)].role = "tool"

Running == pc \in {"loop", "dispatch"}

\* How far a run is from its return: the iterations left, then whether the
\* iteration is still to make its call, then the requests left to process.
\* Triples of naturals, ordered lexicographically: a well-founded order.
Rank ==
    IF pc = "loop" THEN << max_steps - step + 1, 1, 0 >>
    ELSE IF pc = "dispatch" THEN << max_steps - step + 1, 0, Len(tool_calls) >>
    ELSE << 0, 0, 0 >>

LexLess(a, b) ==
    \/ a[1] < b[1]
    \/ a[1] = b[1] /\ a[2] < b[2]
    \/ a[1] = b[1] /\ a[2] = b[2] /\ a[3] < b[3]

\* C15: a run returns, whatever max_steps is and whatever the responses are,
\* when every call of the service and every tool invocation returns.  A run
\* under way is never stuck (in its loop a call or the return of line 195 is
\* up, in a batch a request is up), and every step of it, whatever the
\* response or the tool's result, brings it nearer to its return in a
\* well-founded order: there is no run of infinitely many steps.
C15_Termination ==
    /\ [](Running =>
            /\ step <= max_steps
            /\ pc = "dispatch" => (tool_calls # << >> /\ step < max_steps))
    /\ [][Running => (/\ runs' = runs
                      /\ Running' \/ Done'
                      /\ LexLess(Rank', Rank))]_vars

\* C15: a run with the largest budget has spent it on responses that asked
\* for tools or held no final answer, and has returned.
C15_Witness ==
    /\ pc = "ret_budget"
    /\ max_steps = MaxSteps
    /\ step = max_steps
    /\ Len(calls) = max_steps
    /\ \A i \in DOMAIN calls : LeavesLoopRunning(calls[i].response)

\* This step of a run makes a call of the service that is answered with
\* text of one of the given types.
AnsweredWithText(types) ==
    /\ runs' = runs
    /\ Len(calls') = Len(calls) + 1
    /\ calls'[Len(calls')].response.type = "text"
    /\ ParseLLMResponse(calls'[Len(calls')].response.content).type \in types

\* C16: a text that starts with the thought marker, or that has no marker,
\* is recoverable: one assistant turn with the text of the response is
\* appended, no tool is called, nothing is returned and the loop goes on to
\* its next iteration.
C16_ThoughtOrRemark ==
    [][AnsweredWithText({"thought", "text"}) =>
        /\ chat_history' = Append(chat_history,
                                  TextTurn("assistant",
                                           calls'[Len(calls')].response.content))
        /\ invoked' = invoked
        /\ tool_calls' = << >>
        /\ result' = result
        /\ pc' = "loop"
        /\ step' = step + 1]_vars

\* C16: a thought and then a text without a marker were the answers of a
\* run, which is still in its loop, with both in the transcript.
C16_Witness ==
    /\ pc = "loop"
    /\ Len(calls) = 2
    /\ calls[1].response.content = TXT_THOUGHT
    /\ calls[2].response.content = TXT_PLAIN
    /\ Len(chat_history) = 4
    /\ chat_history[3] = TextTurn("assistant", TXT_THOUGHT)
    /\ chat_history[4] = TextTurn("assistant", TXT_PLAIN)
    /\ step = 2

\* The argument map a source means: every key with its value.
ArgsMeant(src) == {<< src.pairs[i].key, src.pairs[i].value >> : i \in DOMAIN src.pairs}

\* C18: a free text that begins with the action marker, in any case,
\* followed by name(args) with args a list of key=value pairs with commas
\* between them, is interpreted as an action with the tool's name and the
\* argument map of every key with its value, a literal read as a literal
\* and any other value as the trimmed string without its quotes.
C18_ActionArguments ==
    (interp.done /\ interp.src.lead = << >>) =>
        /\ interp.parsed_response.type = "action"
        /\ interp.parsed_response.tool_name = interp.src.name
        /\ interp.parsed_response.tool_args = ArgsMeant(interp.src)

\* The steps of the budget a run has used: the iterations of its loop that
\* are over, and the one under way or left by a return.
StepsConsumed ==
    IF pc \in {"dispatch", "ret_final", "ret_error", "ret_unexpected"}
    THEN step + 1
    ELSE step

\* C19: the steps a run has used are the calls of the service it has made:
\* a response takes one step however many call requests it carries, and so
\* does a thought or a text without a marker.
C19_StepsCountCalls ==
    /\ StepsConsumed = Len(calls)
    /\ StepsConsumed <= max_steps

\* C19: a run has had a response with two call requests and then a thought,
\* and has used two steps.
C19_Witness ==
    /\ pc = "loop"
    /\ Len(calls) = 2
    /\ calls[1].response.type = "tool_calls"
    /\ Len(calls[1].response.tool_calls) = 2
    /\ calls[2].response.content = TXT_THOUGHT
    /\ step = 2

\* The call requests the responses of the run have carried.
RequestsReceived ==
    UNION {{calls[i].response.tool_calls[k] : k \in DOMAIN calls[i].response.tool_calls} :
              i \in {j \in DOMAIN calls : calls[j].response.type = "tool_calls"}}

\* C20: tools are called for call requests only, and once by the schema
\* discovery: every tool function called in a run is the discovery's or that
\* of a call request received, there are as many tool-result turns as call
\* requests processed, and a text classified as an action, its name and
\* arguments extracted or not, is appended as an assistant turn without any
\* tool called or tool-result turn appended, and the loop goes on.
C20_NoToolFromText ==
    /\ [](pc # "idle" =>
            /\ IsPrefix(DiscoveryLog, invoked)
            /\ \A i \in (Len(DiscoveryLog) + 1) .. Len(invoked) :
                   invoked[i] \in RequestsReceived
            /\ Len(ToolTurnsOf(chat_history)) = requests - Len(tool_calls))
    /\ [][AnsweredWithText({"action", "error"}) =>
            /\ chat_history' = Append(chat_history,
                                      TextTurn("assistant",
                                               calls'[Len(calls')].response.content))
            /\ invoked' = invoked
            /\ tool_calls' = << >>
            /\ requests' = requests
            /\ result' = result
            /\ pc' = "loop"
            /\ step' = step + 1]_vars

\* C20: the answer of a run was the text of an action that names a
\* registered tool with its argument; it is in the transcript as an
\* assistant turn, no tool was called for it and the loop goes on.
C20_Witness ==
    /\ pc = "loop"
    /\ Len(calls) = 1
    /\ calls[1].response.content = TXT_ACTION
    /\ ParseLLMResponse(TXT_ACTION).type = "action"
    /\ ParseLLMResponse(TXT_ACTION).tool_name
         = Chars(<< "s", "q", "l", "_", "q", "u", "e", "r", "y" >>)
    /\ ParseLLMResponse(TXT_ACTION).tool_args # {}
    /\ "sql_query" \in tools
    /\ chat_history[Len(chat_history)] = TextTurn("assistant", TXT_ACTION)
    /\ ToolTurnsOf(chat_history) = << >>
    /\ invoked = DiscoveryLog
    /\ step = 1

\* The message of a call carried both call requests and text.
CarriedBoth(c) == c.exc = "none" /\ c.response.type = "tool_calls" /\ c.content # << >>

\* The turns appended to the transcript since the last response came.
TurnsSinceResponse == SubSeq(chat_history, base + 1, Len(chat_history))

\* C21: call requests come before text.  When a message carries both, the
\* response of the client holds the requests and no text, nothing is appended
\* to the transcript on its arrival and the requests are taken up; until the
\* next call the only turns appended are those of the requests (no assistant
\* turn with text), and the run does not return a final answer on it: it goes
\* on, or ends on its budget.
C21_RequestsBeforeText ==
    /\ [](\A i \in DOMAIN calls : CarriedBoth(calls[i]) =>
             /\ calls[i].response.content = << >>
             /\ calls[i].response.tool_calls # << >>)
    /\ []((calls # << >> /\ CarriedBoth(LastCall)) =>
             /\ pc \in {"dispatch", "loop", "ret_budget"}
             /\ pc = "ret_budget" => result = BUDGET_MESSAGE
             /\ pc # "ret_budget" => result = << >>
             /\ batch = LastCall.response.tool_calls
             /\ \A j \in DOMAIN TurnsSinceResponse :
                    \/ TurnsSinceResponse[j].role = "tool"
                    \/ /\ TurnsSinceResponse[j].role = "assistant"
                       /\ "content" \notin DOMAIN TurnsSinceResponse[j])
    /\ [][(runs' = runs /\ Len(calls') = Len(calls) + 1
           /\ CarriedBoth(calls'[Len(calls')])) =>
             /\ chat_history' = chat_history
             /\ tool_calls' = calls'[Len(calls')].response.tool_calls
             /\ pc' = "dispatch"
             /\ step' = step
             /\ result' = result]_vars

\* C21: a message with two call requests and the text of a final answer came
\* as the first response of a run; the requests were processed, the text is
\* not in the transcript, and the run is in its loop with nothing returned.
C21_Witness ==
    /\ pc = "loop"
    /\ Len(calls) = 1
    /\ CarriedBoth(calls[1])
    /\ calls[1].content = TXT_FINAL
    /\ ParseLLMResponse(calls[1].content).type = "final_answer"
    /\ Len(calls[1].response.tool_calls) = 2
    /\ Len(ToolTurnsOf(chat_history)) = 2
    /\ \A j \in DOMAIN chat_history :
           "content" \in DOMAIN chat_history[j] => chat_history[j].content # TXT_FINAL
    /\ result = << >>
    /\ step = 1

=============================================================================
